---------------------------- MODULE Spec2Model ----------------------------
(***************************************************************************)
(* Model of the Rollbar client of crates/client/src/lib.rs: the envelope   *)
(* decoder get_result and the three operations built on it                 *)
(* (resolve_item_id_by_counter, get_item, get_latest_instance), called by  *)
(* up to two concurrent callers on one RollbarClient.                      *)
(*                                                                         *)
(* A JSON value is modelled by the facts serde's derived Deserialize       *)
(* implementations look at: which keys are present and whether each value  *)
(* has the type the Rust field asks for.  Structs are taken in their       *)
(* object (map) form.                                                      *)
(***************************************************************************)
EXTENDS Integers, Sequences, FiniteSets

(* ------------------------------ bounds -------------------------------- *)

\* identifiers (counters, item ids, instance ids) range over 1..MaxId
MaxId == 3
\* longest instance list a response carries
MaxLen == 3

(* ------------------------- program constants -------------------------- *)

\* err: u8
U8Max == 255

\* a key that is not in the JSON object
NoField == -1
\* a value that is in the object but is not a u64 (negative, string, ...)
BadVal == -2

Ids == 1..MaxId

Procs == {1, 2}

Ops == {"resolve_item_id_by_counter", "get_item", "get_latest_instance"}

\* the op argument of get_result at each of its three call sites
OpLabel(o) ==
    CASE o = "resolve_item_id_by_counter" -> "item_by_counter"
      [] o = "get_item" -> "item"
      [] o = "get_latest_instance" -> "item instances"

\* RollbarClient::new: base_url is the literal of the constructor
BaseUrl == "https://api.rollbar.com/api/1"

\* access tokens a client may be constructed with
Tokens == {"tokenA", "tokenB"}

\* RollbarClient::new(access_token): the token goes into the default
\* headers of the http client, the base address is fixed
new(access_token) ==
    [http |-> [header |-> "X-Rollbar-Access-Token", value |-> access_token],
     base_url |-> BaseUrl]

(* ------------------------------ Option -------------------------------- *)

None == [some |-> FALSE]
Some(v) == [some |-> TRUE, v |-> v]

\* the outcome of a serde deserialization
DecodeOk(v) == [ok |-> TRUE, value |-> v]
DecodeErr == [ok |-> FALSE]

(* --------------------------- JSON payloads ---------------------------- *)

\* One JSON value in the place of the envelope's result.
\*   t         "absent" (no result key), "null", "scalar" (string, number,
\*             boolean), "object" or "list"
\*   id        object: the value of key id (an Ids member, NoField, BadVal)
\*   required  object: project_id, counter, title and status are all
\*             present with the types Item asks for
\*   optional  object: environment and total_occurrences are each absent,
\*             null or of the type Item asks for
\*   itemId    object: the value of key itemId
\*   wrapped   object: key instances is present and holds the list
\*   instances list, or object with wrapped: the elements
Json(t, id, required, optional, itemId, wrapped, instances) ==
    [t |-> t, id |-> id, required |-> required, optional |-> optional,
     itemId |-> itemId, wrapped |-> wrapped, instances |-> instances]

JsonAbsent == Json("absent", NoField, FALSE, TRUE, NoField, FALSE, <<>>)
JsonNull == Json("null", NoField, FALSE, TRUE, NoField, FALSE, <<>>)
JsonScalar == Json("scalar", NoField, FALSE, TRUE, NoField, FALSE, <<>>)

\* an element of an instance list: its id key (timestamp, body and data
\* are optional and defaulted, and no operation reads them)
InstanceJson == [id : Ids \cup {BadVal}]

RECURSIVE SeqsUpTo(_, _)
SeqsUpTo(S, n) ==
    IF n = 0 THEN {<<>>}
    ELSE LET shorter == SeqsUpTo(S, n - 1)
         IN  shorter \cup {Append(s, e) : s \in {q \in shorter : Len(q) = n - 1}, e \in S}

InstanceLists == SeqsUpTo(InstanceJson, MaxLen)

\* objects with the keys of an Item and/or of a redirect stub
ItemObjects ==
    {Json("object", i, r, o, k, FALSE, <<>>) :
        i \in Ids \cup {NoField}, r \in BOOLEAN, o \in BOOLEAN,
        k \in Ids \cup {NoField, BadVal}}

\* {"instances": [...]}
WrappedObjects ==
    {Json("object", NoField, FALSE, TRUE, NoField, TRUE, l) : l \in InstanceLists}

\* [...]
BareLists ==
    {Json("list", NoField, FALSE, TRUE, NoField, FALSE, l) : l \in InstanceLists}

Payloads ==
    {JsonAbsent, JsonNull, JsonScalar} \cup ItemObjects \cup WrappedObjects \cup BareLists

(* ------------------------ serde: payload types ------------------------ *)

IsU64(v) == v \in Nat

\* #[derive(Deserialize)] struct Item: the five required fields must be
\* present and typed, the two Option fields absent, null or typed; unknown
\* keys are ignored
DecodeItem(j) ==
    IF j.t = "object" /\ IsU64(j.id) /\ j.required /\ j.optional
    THEN DecodeOk([id |-> j.id])
    ELSE DecodeErr

\* variant Redirect { itemId }: the key itemId must be a u64
DecodeRedirect(j) ==
    IF j.t = "object" /\ IsU64(j.itemId)
    THEN DecodeOk([item_id |-> j.itemId])
    ELSE DecodeErr

\* faulty variant: Redirect declared, and so tried, before Item
DecodeItemByCounterResult_RedirectFirst(j) ==
    LET asItem == DecodeItem(j)
        asRedirect == DecodeRedirect(j)
    IN  IF asRedirect.ok
        THEN DecodeOk([variant |-> "Redirect", item_id |-> asRedirect.value.item_id])
        ELSE IF asItem.ok
        THEN DecodeOk([variant |-> "Item", item |-> asItem.value])
        ELSE DecodeErr

\* #[serde(untagged)] enum ItemByCounterResult: the variants are tried in
\* declaration order, Item first, and the first that deserializes wins
DecodeItemByCounterResult(j) ==
    LET asItem == DecodeItem(j)
        asRedirect == DecodeRedirect(j)
    IN  IF asItem.ok
        THEN DecodeOk([variant |-> "Item", item |-> asItem.value])
        ELSE IF asRedirect.ok
        THEN DecodeOk([variant |-> "Redirect", item_id |-> asRedirect.value.item_id])
        ELSE DecodeErr

\* struct ItemInstance: id is required
DecodeItemInstance(e) ==
    IF IsU64(e.id) THEN DecodeOk([id |-> e.id]) ELSE DecodeErr

\* Vec<ItemInstance>: every element must deserialize; order is kept
DecodeInstances(l) ==
    IF \A i \in 1..Len(l) : DecodeItemInstance(l[i]).ok
    THEN DecodeOk([i \in 1..Len(l) |-> DecodeItemInstance(l[i]).value])
    ELSE DecodeErr

\* #[serde(untagged)] enum ItemInstanceResult: List first, then Wrapped
DecodeItemInstanceResult(j) ==
    LET asList == IF j.t = "list" THEN DecodeInstances(j.instances) ELSE DecodeErr
        asWrapped == IF j.t = "object" /\ j.wrapped
                     THEN DecodeInstances(j.instances) ELSE DecodeErr
    IN  IF asList.ok
        THEN DecodeOk([variant |-> "List", instances |-> asList.value])
        ELSE IF asWrapped.ok
        THEN DecodeOk([variant |-> "Wrapped", instances |-> asWrapped.value])
        ELSE DecodeErr

\* the T each operation instantiates get_result with
DecodePayload(o, j) ==
    CASE o = "resolve_item_id_by_counter" -> DecodeItemByCounterResult(j)
      [] o = "get_item" -> DecodeItem(j)
      [] o = "get_latest_instance" -> DecodeItemInstanceResult(j)

(* ------------------------------ responses ----------------------------- *)

\* the message key of the envelope: absent, a string, or another JSON type
NoMessage == [t |-> "absent", s |-> ""]
BadMessage == [t |-> "number", s |-> ""]
Messages == {NoMessage, BadMessage, [t |-> "string", s |-> "invalid access token"]}

\* the err key: 0, a nonzero u8, a number that does not fit a u8
Errs == {0, 1, U8Max + 1}

\* a body that cannot be read or is not a JSON object with an err key
Unreadable == [json |-> FALSE, err |-> 0, result |-> JsonAbsent, message |-> NoMessage]

Bodies ==
    {Unreadable} \cup
    [json : {TRUE}, err : Errs, result : Payloads, message : Messages]

\* statuses the http client hands to the caller: success, a 3xx it does
\* not follow (300, 304, or a redirect without Location), client error,
\* server error
Statuses == {200, 300, 404, 500}

\* send() failed: there is no response
TransportFailure == [received |-> FALSE, status |-> 0, body |-> Unreadable]

Responses ==
    {TransportFailure} \cup [received : {TRUE}, status : Statuses, body : Bodies]

(* ----------------------------- get_result ----------------------------- *)

Ok(v) == [ok |-> TRUE, value |-> v]

\* an anyhow error: the context message, as the pieces format! joins, and
\* the error it wraps ("none" for bail! and for Option::with_context)
Err(context, cause) == [ok |-> FALSE, context |-> context, cause |-> cause]

\* Response::error_for_status: an error exactly for client and server
\* error statuses (400..599); every other status passes
error_for_status(status) == status \in 400..599

\* #[derive(Deserialize)] struct ApiEnvelope<T> { err: u8, result:
\* Option<T>, message: Option<String> }: every field must deserialize
DecodeEnvelope(o, body) ==
    LET noResult == body.result.t \in {"absent", "null"}
        payload == DecodePayload(o, body.result)
    IN  IF /\ body.json
           /\ body.err \in 0..U8Max
           /\ body.message.t \in {"absent", "string"}
           /\ (noResult \/ payload.ok)
        THEN DecodeOk([err |-> body.err,
                       result |-> IF noResult THEN None ELSE Some(payload.value),
                       message |-> IF body.message.t = "string"
                                   THEN Some(body.message.s) ELSE None])
        ELSE DecodeErr

\* faulty variant: the missing result is reported before err is looked at
get_result_MissingBeforeErr(o, resp) ==
    LET label == OpLabel(o)
        envelope == DecodeEnvelope(o, resp.body)
    IN  IF ~resp.received
        THEN Err(<<"request to ", label, " failed">>, "send")
        ELSE IF error_for_status(resp.status)
        THEN Err(<<label, " returned non-success status">>, "status")
        ELSE IF ~envelope.ok
        THEN Err(<<"failed to decode ", label, " response">>, "decode")
        ELSE IF ~envelope.value.result.some
        THEN Err(<<label, " response is missing result">>, "none")
        ELSE IF envelope.value.err # 0
        THEN Err(<<"rollbar ", label, ": ",
                   IF envelope.value.message.some
                   THEN envelope.value.message.v
                   ELSE "unknown error from Rollbar">>, "none")
        ELSE Ok(envelope.value.result.v)

\* get_result from the point where send() resolves to its return
get_result(o, resp) ==
    LET label == OpLabel(o)
        envelope == DecodeEnvelope(o, resp.body)
    IN  IF ~resp.received
        THEN Err(<<"request to ", label, " failed">>, "send")
        ELSE IF error_for_status(resp.status)
        THEN Err(<<label, " returned non-success status">>, "status")
        ELSE IF ~envelope.ok
        THEN Err(<<"failed to decode ", label, " response">>, "decode")
        ELSE IF envelope.value.err # 0
        THEN Err(<<"rollbar ", label, ": ",
                   IF envelope.value.message.some
                   THEN envelope.value.message.v
                   ELSE "unknown error from Rollbar">>, "none")
        ELSE IF ~envelope.value.result.some
        THEN Err(<<label, " response is missing result">>, "none")
        ELSE Ok(envelope.value.result.v)

(* ----------------------------- operations ----------------------------- *)

ItemId(n) == [ItemId |-> n]

\* the path each operation formats from its argument
Path(o, a) ==
    CASE o = "resolve_item_id_by_counter" -> <<"/item_by_counter/", a, "">>
      [] o = "get_item" -> <<"/item/", a, "/">>
      [] o = "get_latest_instance" -> <<"/item/", a, "/instances?per_page=1">>

\* resolve_item_id_by_counter after get_result: ? on the failure, else the
\* match on the variant
resolve_item_id_by_counter_return(r) ==
    IF ~r.ok THEN r
    ELSE IF r.value.variant = "Item"
    THEN Ok(ItemId(r.value.item.id))
    ELSE Ok(ItemId(r.value.item_id))

\* get_item returns what get_result returns
get_item_return(r) == r

\* faulty variant: the first element is taken instead of the last
PopFirst(v) == IF Len(v) = 0 THEN None ELSE Some(v[1])

\* Vec::pop: the last element, None on an empty vector
Pop(v) == IF Len(v) = 0 THEN None ELSE Some(v[Len(v)])

\* faulty variant: a missing result is taken for an item without instances
get_latest_instance_return_NoneOnMissing(r) ==
    IF ~r.ok
    THEN IF r.cause = "none" /\ Len(r.context) = 2 THEN Ok(None) ELSE r
    ELSE Ok(Pop(r.value.instances))

\* faulty variant: an empty list is reported as a failure
get_latest_instance_return_ErrOnEmpty(r) ==
    IF ~r.ok THEN r
    ELSE IF Len(r.value.instances) = 0
    THEN Err(<<"item instances", " returned no instance">>, "none")
    ELSE Ok(Pop(r.value.instances))

\* get_latest_instance after get_result: both variants unwrap to the
\* vector, then pop
get_latest_instance_return(r) ==
    IF ~r.ok THEN r ELSE Ok(Pop(r.value.instances))

\* what operation o returns to its caller on response resp
Outcome(o, resp) ==
    CASE o = "resolve_item_id_by_counter" ->
            resolve_item_id_by_counter_return(get_result(o, resp))
      [] o = "get_item" -> get_item_return(get_result(o, resp))
      [] o = "get_latest_instance" ->
            get_latest_instance_return(get_result(o, resp))

(* ------------------------------- state -------------------------------- *)

VARIABLES
    client,    \* the RollbarClient: [http, base_url]
    pc,        \* per caller: "idle", "awaiting" (in send().await), "done"
    op,        \* per caller: the operation it runs
    arg,       \* per caller: the counter or item id it passed
    request,   \* per caller: the GET in flight: [url, header]
    sent,      \* per caller: GET requests issued by the current call
    response,  \* per caller: the response its request got
    result     \* per caller: what the operation returned

vars == <<client, pc, op, arg, request, sent, response, result>>

NoRequest == [url |-> <<"", <<"", 0, "">>>>, header |-> ""]
NoResult == [ok |-> FALSE, context |-> <<>>, cause |-> "pending"]

Init ==
    /\ client \in {new(t) : t \in Tokens}
    /\ pc = [p \in Procs |-> "idle"]
    /\ op = [p \in Procs |-> "get_item"]
    /\ arg = [p \in Procs |-> 1]
    /\ request = [p \in Procs |-> NoRequest]
    /\ sent = [p \in Procs |-> 0]
    /\ response = [p \in Procs |-> TransportFailure]
    /\ result = [p \in Procs |-> NoResult]

\* faulty variant: the url is built by appending the path to the client's
\* base_url in place
Start_UrlInPlace(p, o, a) ==
    /\ pc[p] = "idle"
    /\ pc' = [pc EXCEPT ![p] = "awaiting"]
    /\ op' = [op EXCEPT ![p] = o]
    /\ arg' = [arg EXCEPT ![p] = a]
    /\ client' = [client EXCEPT !.base_url = Path(o, a)[1]]
    /\ request' = [request EXCEPT ![p] =
                      [url |-> <<client.base_url, Path(o, a)>>,
                       header |-> client.http.value]]
    /\ sent' = [sent EXCEPT ![p] = 1]
    /\ UNCHANGED <<response, result>>

\* an operation from its entry to send().await: it formats the path,
\* get_result formats the url and issues one GET with the client's
\* default header
Start(p, o, a) ==
    /\ pc[p] = "idle"
    /\ pc' = [pc EXCEPT ![p] = "awaiting"]
    /\ op' = [op EXCEPT ![p] = o]
    /\ arg' = [arg EXCEPT ![p] = a]
    /\ request' = [request EXCEPT ![p] =
                      [url |-> <<client.base_url, Path(o, a)>>,
                       header |-> client.http.value]]
    /\ sent' = [sent EXCEPT ![p] = 1]
    /\ UNCHANGED <<client, response, result>>

resolve_item_id_by_counter(p, counter) ==
    Start(p, "resolve_item_id_by_counter", counter)

get_item(p, item_id) == Start(p, "get_item", item_id)

get_latest_instance(p, item_id) == Start(p, "get_latest_instance", item_id)

\* faulty variant: a failed request is sent again instead of returning
Resume_Retrying(p, network) ==
    /\ pc[p] = "awaiting"
    /\ \E resp \in network :
        /\ response' = [response EXCEPT ![p] = resp]
        /\ IF Outcome(op[p], resp).ok
           THEN /\ result' = [result EXCEPT ![p] = Outcome(op[p], resp)]
                /\ pc' = [pc EXCEPT ![p] = "done"]
                /\ request' = [request EXCEPT ![p] = NoRequest]
                /\ sent' = sent
           ELSE /\ sent' = [sent EXCEPT ![p] = sent[p] + 1]
                /\ UNCHANGED <<result, pc, request>>
    /\ UNCHANGED <<client, op, arg>>

\* the awaited request resolves with one of the responses the network may
\* deliver; the operation runs to its return without another await on the
\* network
Resume(p, network) ==
    /\ pc[p] = "awaiting"
    /\ \E resp \in network :
        /\ response' = [response EXCEPT ![p] = resp]
        /\ result' = [result EXCEPT ![p] = Outcome(op[p], resp)]
    /\ pc' = [pc EXCEPT ![p] = "done"]
    /\ request' = [request EXCEPT ![p] = NoRequest]
    /\ UNCHANGED <<client, op, arg, sent>>

\* the caller takes the returned value; the call's frame is gone
Return(p) ==
    /\ pc[p] = "done"
    /\ pc' = [pc EXCEPT ![p] = "idle"]
    /\ sent' = [sent EXCEPT ![p] = 0]
    /\ response' = [response EXCEPT ![p] = TransportFailure]
    /\ result' = [result EXCEPT ![p] = NoResult]
    /\ UNCHANGED <<client, op, arg, request>>

\* one caller, every response of the bounded domain
SeqProcs == {1}

Next ==
    \E p \in SeqProcs :
        \/ \E c \in Ids : resolve_item_id_by_counter(p, c)
        \/ \E i \in Ids : get_item(p, i)
        \/ \E i \in Ids : get_latest_instance(p, i)
        \/ Resume(p, Responses)
        \/ Return(p)

Spec == Init /\ [][Next]_vars

(* --------------------------- two callers ------------------------------ *)

Envelope(err, payload, message) ==
    [json |-> TRUE, err |-> err, result |-> payload, message |-> message]

\* one body of each kind get_result and the operations tell apart
ConcBodies ==
    {Unreadable,
     Envelope(1, JsonAbsent, [t |-> "string", s |-> "invalid access token"]),
     Envelope(0, JsonAbsent, NoMessage),
     Envelope(0, Json("object", 1, TRUE, TRUE, 2, FALSE, <<>>), NoMessage),
     Envelope(0, Json("object", NoField, FALSE, TRUE, 2, FALSE, <<>>), NoMessage),
     Envelope(0, Json("list", NoField, FALSE, TRUE, NoField, FALSE,
                      <<[id |-> 1], [id |-> 2]>>), NoMessage),
     Envelope(0, Json("object", NoField, FALSE, TRUE, NoField, TRUE, <<>>), NoMessage)}

ConcResponses ==
    {TransportFailure, [received |-> TRUE, status |-> 404, body |-> Unreadable]}
    \cup [received : {TRUE}, status : {200}, body : ConcBodies]

\* two callers share the client; their request and response steps
\* interleave freely
NextConc ==
    \E p \in Procs :
        \/ \E c \in Ids : resolve_item_id_by_counter(p, c)
        \/ \E i \in Ids : get_item(p, i)
        \/ \E i \in Ids : get_latest_instance(p, i)
        \/ Resume(p, ConcResponses)
        \/ Return(p)

SpecConc == Init /\ [][NextConc]_vars

(* ------------------------------ claims -------------------------------- *)

Done(p) == pc[p] = "done"

Is2xx(status) == status \in 200..299

\* the response of caller p is a 2xx response with a JSON envelope whose
\* message, if any, is a string
Envelope2xx(p) ==
    /\ response[p].received
    /\ Is2xx(response[p].status)
    /\ response[p].body.json
    /\ response[p].body.message.t \in {"absent", "string"}

NoResultField(j) == j.t \in {"absent", "null"}

\* the shapes of section 3 of the specification, on a JSON payload
SatisfiesItemRequired(j) == j.t = "object" /\ j.id \in Nat /\ j.required
SatisfiesItem(j) == SatisfiesItemRequired(j) /\ j.optional
SatisfiesRedirect(j) == j.t = "object" /\ j.itemId \in Nat
IsInstanceList(j) ==
    /\ j.t = "list" \/ (j.t = "object" /\ j.wrapped)
    /\ \A i \in 1..Len(j.instances) : j.instances[i].id \in Nat
SatisfiesPayload(o, j) ==
    CASE o = "resolve_item_id_by_counter" -> SatisfiesItem(j) \/ SatisfiesRedirect(j)
      [] o = "get_item" -> SatisfiesItem(j)
      [] o = "get_latest_instance" -> IsInstanceList(j)

\* the failures of section 7, as the caller sees them
ServiceFailure(o, body) ==
    Err(<<"rollbar ", OpLabel(o), ": ",
          IF body.message.t = "string" THEN body.message.s
          ELSE "unknown error from Rollbar">>, "none")
MissingResultFailure(o) == Err(<<OpLabel(o), " response is missing result">>, "none")

IsServiceFailure(r) == ~r.ok /\ Len(r.context) = 4 /\ r.context[1] = "rollbar "
CarriesLabel(r, o) == \E i \in 1..Len(r.context) : r.context[i] = OpLabel(o)

\* C1: resolve_item_id_by_counter and get_item return a success value only
\* if the HTTP status was 2xx, the envelope's err was 0 and its result was
\* present; every other response yields a failure.
C1_SuccessOnly2xxErr0Result ==
    \A p \in Procs :
        (Done(p) /\ op[p] \in {"resolve_item_id_by_counter", "get_item"} /\ result[p].ok)
        => /\ response[p].received
           /\ Is2xx(response[p].status)
           /\ response[p].body.json
           /\ response[p].body.err = 0
           /\ ~NoResultField(response[p].body.result)

\* C2 as stated: every 2xx response whose envelope has err # 0 yields the
\* service-reported failure with the envelope's message or the generic
\* text, whether or not result is present and whatever it contains.
C2_ServiceFailureWhateverResult ==
    \A p \in Procs :
        (Done(p) /\ Envelope2xx(p) /\ response[p].body.err # 0)
        => result[p] = ServiceFailure(op[p], response[p].body)

\* C2 amended: every 2xx response whose body deserializes as the
\* operation's envelope (err in 1..255, result absent, null or of the
\* operation's payload shape) yields the service-reported failure tagged
\* with the operation label, with the envelope's message or the generic
\* "unknown error" text; the failure is a function of label and message.
C2_ServiceFailureOnDecodedEnvelope ==
    \A p \in Procs :
        (/\ Done(p)
         /\ Envelope2xx(p)
         /\ response[p].body.err \in 1..U8Max
         /\ \/ NoResultField(response[p].body.result)
            \/ SatisfiesPayload(op[p], response[p].body.result))
        => result[p] = ServiceFailure(op[p], response[p].body)

\* C2 witness: err # 0 with a well-formed result present and a message
C2_Witness ==
    \E p \in Procs :
        /\ Done(p) /\ Envelope2xx(p) /\ op[p] = "get_item"
        /\ response[p].body.err = 1
        /\ SatisfiesItem(response[p].body.result)
        /\ response[p].body.message.t = "string"
        /\ result[p] = Err(<<"rollbar ", "item", ": ", "invalid access token">>, "none")

\* C3: every 2xx response whose envelope has err = 0 and no result makes
\* each operation fail with the "missing result" failure tagged with the
\* operation label; that failure is not a service-reported failure, and
\* get_latest_instance does not turn it into "none".
C3_MissingResultFailure ==
    \A p \in Procs :
        (/\ Done(p)
         /\ Envelope2xx(p)
         /\ response[p].body.err = 0
         /\ NoResultField(response[p].body.result))
        => /\ result[p] = MissingResultFailure(op[p])
           /\ CarriesLabel(result[p], op[p])
           /\ ~IsServiceFailure(result[p])
           /\ result[p] # Ok(None)

C3_Witness ==
    \E p \in Procs :
        /\ Done(p) /\ Envelope2xx(p) /\ op[p] = "get_latest_instance"
        /\ response[p].body.err = 0
        /\ response[p].body.result.t = "absent"
        /\ result[p] = Err(<<"item instances", " response is missing result">>, "none")

\* C4 as stated: on a successful envelope, a payload that satisfies the
\* required fields of Item (id, project_id, counter, title, status) makes
\* resolve_item_id_by_counter return the payload's id, also when itemId is
\* there as well; itemId is returned only otherwise.
C4_RequiredFieldsGiveId ==
    \A p \in Procs :
        (Done(p) /\ op[p] = "resolve_item_id_by_counter" /\ result[p].ok)
        => IF SatisfiesItemRequired(response[p].body.result)
           THEN result[p] = Ok(ItemId(response[p].body.result.id))
           ELSE result[p] = Ok(ItemId(response[p].body.result.itemId))

\* C4 amended: on a successful envelope, a payload that satisfies the full
\* Item shape (the five required fields, and environment and
\* total_occurrences each absent, null or of its type) makes
\* resolve_item_id_by_counter return the payload's id, also when itemId is
\* there as well; the payload's itemId is returned only when the payload
\* does not satisfy the full Item shape.
C4_FullItemGivesId ==
    \A p \in Procs :
        (Done(p) /\ op[p] = "resolve_item_id_by_counter" /\ result[p].ok)
        => IF SatisfiesItem(response[p].body.result)
           THEN result[p] = Ok(ItemId(response[p].body.result.id))
           ELSE /\ SatisfiesRedirect(response[p].body.result)
                /\ result[p] = Ok(ItemId(response[p].body.result.itemId))

\* C4 witness: a full Item that also carries a different itemId
C4_Witness ==
    \E p \in Procs :
        /\ Done(p) /\ op[p] = "resolve_item_id_by_counter"
        /\ SatisfiesItem(response[p].body.result)
        /\ response[p].body.result.id = 1
        /\ response[p].body.result.itemId = 2
        /\ result[p] = Ok(ItemId(1))

\* C5: on a successful envelope with a non-empty instance list,
\* get_latest_instance returns the last element of the list, for the bare
\* list and for the list wrapped under instances alike.
C5_LastElementBothShapes ==
    \A p \in Procs :
        LET j == response[p].body.result
        IN  (/\ Done(p) /\ op[p] = "get_latest_instance" /\ result[p].ok
             /\ Len(j.instances) > 0)
            => /\ j.t = "list" \/ (j.t = "object" /\ j.wrapped)
               /\ result[p] = Ok(Some([id |-> j.instances[Len(j.instances)].id]))

\* C5 witness: [A, B, C] in the wrapped shape returns C
C5_Witness ==
    \E p \in Procs :
        /\ Done(p) /\ op[p] = "get_latest_instance"
        /\ response[p].body.result.t = "object"
        /\ response[p].body.result.instances = <<[id |-> 1], [id |-> 2], [id |-> 3]>>
        /\ result[p] = Ok(Some([id |-> 3]))

\* C6: on a successful envelope whose instance list is empty, bare or
\* wrapped, get_latest_instance returns the success value "none".
C6_EmptyListIsNone ==
    \A p \in Procs :
        LET j == response[p].body.result
        IN  (/\ Done(p) /\ op[p] = "get_latest_instance"
             /\ Envelope2xx(p) /\ response[p].body.err = 0
             /\ j.t = "list" \/ (j.t = "object" /\ j.wrapped)
             /\ Len(j.instances) = 0)
            => result[p] = Ok(None)

C6_Witness ==
    \E p \in Procs :
        /\ Done(p) /\ op[p] = "get_latest_instance"
        /\ response[p].body.result.t = "object"
        /\ response[p].body.result.wrapped
        /\ response[p].body.result.instances = <<>>
        /\ result[p] = Ok(None)

\* C7: on a successful response whose instance list is ordered
\* most-recent-first (the most recent instance is the head of the list),
\* get_latest_instance returns the most recent instance, for every list
\* length.
C7_ReturnsMostRecent ==
    \A p \in Procs :
        LET j == response[p].body.result
        IN  (/\ Done(p) /\ op[p] = "get_latest_instance" /\ result[p].ok
             /\ Len(j.instances) > 0)
            => result[p] = Ok(Some([id |-> Head(j.instances).id]))

\* C8: every call issues exactly one GET before it returns, whatever the
\* outcome; after a failure no second request is sent, and the failure
\* get_result produced is what the caller gets.
C8_OneRequestPerCall ==
    \A p \in Procs :
        /\ pc[p] \in {"awaiting", "done"} => sent[p] = 1
        /\ pc[p] = "idle" => sent[p] = 0
        /\ (Done(p) /\ ~get_result(op[p], response[p]).ok)
           => result[p] = get_result(op[p], response[p])

\* C8 witness: a call that has returned a failure
C8_Witness ==
    \E p \in Procs :
        /\ Done(p) /\ ~result[p].ok /\ sent[p] = 1
        /\ response[p].received /\ response[p].status = 200

\* C9: with two operations running concurrently on one client, in every
\* interleaving the client's authentication header and base address keep
\* their values of construction, a step of one caller leaves the other
\* caller's call untouched, each request carries the client's header and
\* base address and the caller's own argument, and each result is the one
\* the operation gives on its own response.
C9_StateIsolation ==
    /\ client \in {new(t) : t \in Tokens}
    /\ \A p \in Procs :
        /\ pc[p] = "awaiting" =>
              request[p] = [url |-> <<client.base_url, Path(op[p], arg[p])>>,
                            header |-> client.http.value]
        /\ Done(p) => result[p] = Outcome(op[p], response[p])

C9_StepIsolation ==
    /\ client' = client
    /\ \A p, q \in Procs :
        (p # q /\ pc'[p] # pc[p])
        => /\ pc'[q] = pc[q] /\ op'[q] = op[q] /\ arg'[q] = arg[q]
           /\ request'[q] = request[q] /\ response'[q] = response[q]
           /\ result'[q] = result[q] /\ sent'[q] = sent[q]

C9_ConcurrentIsolation == []C9_StateIsolation /\ [][C9_StepIsolation]_vars

\* C9 witness: both callers have returned, from different operations on
\* different responses
C9_Witness ==
    /\ Done(1) /\ Done(2)
    /\ op[1] = "resolve_item_id_by_counter" /\ op[2] = "get_latest_instance"
    /\ result[1] = Ok(ItemId(1))
    /\ result[2] = Ok(Some([id |-> 2]))

\* C10: every failure an operation returns carries the label of that
\* operation, and a non-2xx status is an immediate failure whatever the
\* body contains.
C10_LabelledAndNon2xxFails ==
    \A p \in Procs :
        Done(p) =>
            /\ ~result[p].ok => CarriesLabel(result[p], op[p])
            /\ (response[p].received /\ ~Is2xx(response[p].status))
               => ~result[p].ok

=============================================================================
